---------------------------- MODULE Spec2Model ----------------------------
(***************************************************************************)
(* Model of the three build scripts of coderabbit-shadcn-registry:         *)
(*   scripts/build-flat-registry.js   (Flat Registry Builder)              *)
(*   scripts/build-bundles.js         (Bundle Registry Builder)            *)
(*   the post-build transformer       (Post-Build URL Transformer)         *)
(* and of the dependency rewriter each of them carries.                    *)
(***************************************************************************)
EXTENDS Integers, Sequences, FiniteSets, TLC

VARIABLES
    rwArg,      \* rewriter harness: the value handed to the rewriters
    rwCalled,   \* rewriter harness: which rewriter ran last ("none" at first)
    rwResult,   \* rewriter harness: the completion of that call
    regFile,    \* flat builder: registry.json on disk, [kind, doc]
    registry,   \* flat builder: the parsed descriptor (const registry)
    flPc,       \* flat builder: position in buildFlatRegistry
    flIdx,      \* flat builder: index of the item the for-of loop is at
    flFidx,     \* flat builder: index of the file entry copySourceFiles is at
    flDirs,     \* flat builder: directories that exist under the output root
    flOut,      \* flat builder: files of the output tree, path -> content
    flLog,      \* flat builder: console lines and file operations, in order
    flExit,     \* flat builder: process exit code, -1 while running
    bnPc,       \* bundle builder: position in buildBundles
    bnIdx,      \* bundle builder: index of the backend the loop is at
    bnDirs,     \* bundle builder: directories that exist under the output root
    bnOut,      \* bundle builder: files of the output tree, path -> content
    bnLog,      \* bundle builder: console lines and file operations, in order
    bnExit,     \* bundle builder: process exit code, -1 while running
    poDirs,     \* transformer: the directories of the output tree, dir -> state
    poTree,     \* transformer: the files of the output tree, path -> file
    poSnap,     \* transformer: the files as they were when the current run began
    poFiles,    \* transformer: jsonFiles, the result of findJsonFiles
    poIdx,      \* transformer: index of the file the main loop is at
    poCount,    \* transformer: transformedCount
    poRun,      \* transformer: number of the current run
    poPc,       \* transformer: position in the script
    poLog,      \* transformer: console lines and file writes, in order
    poExit      \* transformer: exit code of the current run, -1 while running

rwVars == <<rwArg, rwCalled, rwResult>>

flVars == <<regFile, registry, flPc, flIdx, flFidx, flDirs, flOut, flLog, flExit>>

bnVars == <<bnPc, bnIdx, bnDirs, bnOut, bnLog, bnExit>>

poVars == <<poDirs, poTree, poSnap, poFiles, poIdx, poCount, poRun, poPc, poLog, poExit>>

vars == <<rwArg, rwCalled, rwResult,
          regFile, registry, flPc, flIdx, flFidx, flDirs, flOut, flLog, flExit,
          bnPc, bnIdx, bnDirs, bnOut, bnLog, bnExit,
          poDirs, poTree, poSnap, poFiles, poIdx, poCount, poRun, poPc, poLog, poExit>>

(***************************************************************************)
(* JavaScript values.  Every value carries its type tag; an object is a    *)
(* function from its own keys to values, so "key absent" is "key not in    *)
(* DOMAIN".  A thrown exception is the completion Throw.                   *)
(***************************************************************************)
Undefined == [t |-> "undefined"]
Null == [t |-> "null"]
Str(s) == [t |-> "string", str |-> s]
Num(n) == [t |-> "number", num |-> n]
Arr(es) == [t |-> "array", elems |-> es]
Obj(f) == [t |-> "object", props |-> f]
Throw == [t |-> "throw", err |-> "TypeError"]

NoProps == [k \in {} |-> Undefined]

\* String.prototype.startsWith
StartsWith(s, p) == Len(s) >= Len(p) /\ SubSeq(s, 1, Len(p)) = p

\* ToBoolean, as `!v` and `if (v)` apply it
Truthy(v) ==
    CASE v.t = "undefined" -> FALSE
      [] v.t = "null" -> FALSE
      [] v.t = "string" -> v.str # ""
      [] v.t = "number" -> v.num # 0
      [] OTHER -> TRUE

IsArray(v) == v.t = "array"

\* o.k for a value o: a TypeError on undefined and null, undefined when the
\* key is absent (strings, numbers and arrays have none of the keys read here)
Get(o, k) ==
    CASE o.t \in {"undefined", "null"} -> Throw
      [] o.t = "object" -> IF k \in DOMAIN o.props THEN o.props[k] ELSE Undefined
      [] OTHER -> Undefined

REGISTRY_BASE_URL ==
    "https://raw.githubusercontent.com/RMNCLDYO/coderabbit-shadcn-registry/main/public/r"

\* `${REGISTRY_BASE_URL}/${dep}.json`
DepUrl(s) == REGISTRY_BASE_URL \o "/" \o s \o ".json"

\* Array.prototype.map, given the completions rs of its callback on each
\* element: the array of the results, or the exception if one call threw
MapResult(rs) ==
    IF \E i \in 1..Len(rs) : rs[i] = Throw THEN Throw ELSE Arr(rs)

(***************************************************************************)
(* The three dependency rewriters.                                         *)
(***************************************************************************)
\* flat_mapDep with the ".json" suffix forgotten
flat_mapDep_noSuffix(dep) ==
    IF dep.t # "string" THEN Throw
    ELSE IF StartsWith(dep.str, "coderabbit-")
    THEN Str(REGISTRY_BASE_URL \o "/" \o dep.str)
    ELSE dep

\* build-flat-registry.js, the callback of deps.map
flat_mapDep(dep) ==
    IF dep.t # "string" THEN Throw
    ELSE IF StartsWith(dep.str, "coderabbit-") THEN Str(DepUrl(dep.str))
    ELSE dep

\* transformRegistryDependencies that leaves every identifier as it is
flat_transformRegistryDependencies_identity(deps) == deps

\* build-flat-registry.js transformRegistryDependencies
flat_transformRegistryDependencies(deps) ==
    IF ~Truthy(deps) \/ ~IsArray(deps) THEN deps
    ELSE MapResult([n \in 1..Len(deps.elems) |-> flat_mapDep(deps.elems[n])])

\* build-bundles.js, the callback of deps.map
bundles_mapDep(dep) ==
    IF dep.t # "string" THEN Throw
    ELSE IF StartsWith(dep.str, "coderabbit-") THEN Str(DepUrl(dep.str))
    ELSE dep

\* build-bundles.js transformRegistryDependencies: no guard, deps.map is
\* called on whatever it is given
bundles_transformRegistryDependencies(deps) ==
    IF ~IsArray(deps) THEN Throw
    ELSE MapResult([n \in 1..Len(deps.elems) |-> bundles_mapDep(deps.elems[n])])

\* post-build transformer, the callback of deps.map
post_mapDep(dep) ==
    IF dep.t # "string" THEN Throw
    ELSE IF StartsWith(dep.str, "http://") \/ StartsWith(dep.str, "https://") THEN dep
    ELSE IF StartsWith(dep.str, "coderabbit-") THEN Str(DepUrl(dep.str))
    ELSE dep

\* post-build transformer transformDeps
transformDeps(deps) ==
    IF ~Truthy(deps) \/ ~IsArray(deps) THEN deps
    ELSE MapResult([n \in 1..Len(deps.elems) |-> post_mapDep(deps.elems[n])])

(***************************************************************************)
(* Rewriter harness: one call of one rewriter on one argument.             *)
(***************************************************************************)
MaxDeps == 2

DepStrings ==
    { "button", "coderabbit-types", "coderabbit-", "xcoderabbit-a", "",
      "http://example.com/coderabbit-x.json",
      DepUrl("coderabbit-types") }

DepElems == {Str(s) : s \in DepStrings} \cup {Num(1)}

SeqsUpTo(S, n) == UNION {[1..k -> S] : k \in 0..n}

\* what a caller may hand to a rewriter: arrays, and the non-arrays
RewriterArgs ==
    {Arr(es) : es \in SeqsUpTo(DepElems, MaxDeps)}
      \cup {Undefined, Null, Str(""), Str("coderabbit-types"), Num(0), Obj(NoProps)}

RwIdle ==
    /\ rwArg = Undefined
    /\ rwCalled = "none"
    /\ rwResult = Undefined

FlIdle ==
    /\ regFile = [kind |-> "unreadable", doc |-> Undefined]
    /\ registry = Undefined
    /\ flPc = "idle"
    /\ flIdx = 0
    /\ flFidx = 0
    /\ flDirs = {}
    /\ flOut = NoProps
    /\ flLog = <<>>
    /\ flExit = -1

BnIdle ==
    /\ bnPc = "idle"
    /\ bnIdx = 0
    /\ bnDirs = {}
    /\ bnOut = NoProps
    /\ bnLog = <<>>
    /\ bnExit = -1

PoIdle ==
    /\ poDirs = NoProps
    /\ poTree = NoProps
    /\ poSnap = NoProps
    /\ poFiles = <<>>
    /\ poIdx = 0
    /\ poCount = 0
    /\ poRun = 0
    /\ poPc = "idle"
    /\ poLog = <<>>
    /\ poExit = -1

RwInit ==
    /\ FlIdle
    /\ BnIdle
    /\ PoIdle
    /\ rwArg \in RewriterArgs
    /\ rwCalled = "none"
    /\ rwResult = Undefined

CallFlatRewriter ==
    /\ rwCalled = "none"
    /\ rwCalled' = "flat"
    /\ rwResult' = flat_transformRegistryDependencies(rwArg)
    /\ UNCHANGED rwArg
    /\ UNCHANGED <<flVars, bnVars, poVars>>

CallBundlesRewriter ==
    /\ rwCalled = "none"
    /\ rwCalled' = "bundles"
    /\ rwResult' = bundles_transformRegistryDependencies(rwArg)
    /\ UNCHANGED rwArg
    /\ UNCHANGED <<flVars, bnVars, poVars>>

CallPostRewriter ==
    /\ rwCalled = "none"
    /\ rwCalled' = "post"
    /\ rwResult' = transformDeps(rwArg)
    /\ UNCHANGED rwArg
    /\ UNCHANGED <<flVars, bnVars, poVars>>

RwNext == CallFlatRewriter \/ CallBundlesRewriter \/ CallPostRewriter

SpecRewriter == RwInit /\ [][RwNext]_vars

(***************************************************************************)
(* Objects, JSON and paths.                                                *)
(***************************************************************************)
\* { ...o, [k]: v } for an object o
SetProp(o, k, v) ==
    Obj([x \in DOMAIN o.props \cup {k} |-> IF x = k THEN v ELSE o.props[x]])

\* { ...o } : the own properties of o; null and undefined spread to nothing
Spread(o) == IF o.t = "object" THEN o ELSE Obj(NoProps)

\* RestWithout that spreads the whole entry, the key included
RestWithout_keepsAll(o, k) ==
    CASE o.t \in {"undefined", "null"} -> Throw
      [] o.t = "object" -> o
      [] OTHER -> Obj(NoProps)

\* const { [k]: _, ...rest } = o : a TypeError on null and undefined, else
\* the own properties of o but k (a number has none)
RestWithout(o, k) ==
    CASE o.t \in {"undefined", "null"} -> Throw
      [] o.t = "object" -> Obj([x \in DOMAIN o.props \ {k} |-> o.props[x]])
      [] OTHER -> Obj(NoProps)

\* JSON.parse(JSON.stringify(v)): what a reader of the written file gets.
\* A key whose value is undefined is not written; an undefined array
\* element is written as null.
RECURSIVE Json(_)
Json(v) ==
    CASE v.t = "object" ->
            LET keep == {k \in DOMAIN v.props : v.props[k] # Undefined}
            IN  Obj([k \in keep |-> Json(v.props[k])])
      [] v.t = "array" ->
            Arr([i \in 1..Len(v.elems) |->
                    IF v.elems[i] = Undefined THEN Null ELSE Json(v.elems[i])])
      [] OTHER -> v

\* path.join(a, b) for a relative b without "." or ".." segments
PathJoin(a, b) == IF b = "" THEN a ELSE a \o "/" \o b

Slashes(p) == {i \in 1..Len(p) : SubSeq(p, i, i) = "/"}

\* path.dirname
Dirname(p) ==
    IF Slashes(p) = {} THEN "."
    ELSE SubSeq(p, 1, (CHOOSE i \in Slashes(p) : \A j \in Slashes(p) : j <= i) - 1)

\* the directories mkdirSync(dir, { recursive: true }) makes sure exist
DirAndAncestors(dir) ==
    {dir} \cup {SubSeq(dir, 1, i - 1) : i \in Slashes(dir)}

(***************************************************************************)
(* Flat Registry Builder (scripts/build-flat-registry.js).                 *)
(***************************************************************************)
REGISTRY_FILE == "registry.json"
OUTPUT_DIR == "public/r"

\* generateItemJSON
generateItemJSON(item) ==
    LET schema == Str("https://ui.shadcn.com/schema/registry-item.json")
        own == Spread(item).props
        merged == Obj([k \in {"$schema"} \cup DOMAIN own |->
                         IF k \in DOMAIN own THEN own[k] ELSE schema])
        deps == Get(merged, "registryDependencies")
        withDeps == IF Truthy(deps)
                    THEN LET t == flat_transformRegistryDependencies(deps)
                         IN  IF t = Throw THEN Throw
                             ELSE SetProp(merged, "registryDependencies", t)
                    ELSE merged
    IN  IF withDeps = Throw THEN Throw
        ELSE LET files == Get(withDeps, "files")
             IN  IF Truthy(files) /\ IsArray(files)
                 THEN LET StripContent(file) == RestWithout(file, "content")
                          m == MapResult([n \in 1..Len(files.elems) |->
                                            StripContent(files.elems[n])])
                      IN  IF m = Throw THEN Throw ELSE SetProp(withDeps, "files", m)
                 ELSE withDeps

\* transformedRegistry built from the flattened items
transformedRegistry_flattened(reg) ==
    LET MapItem(item) ==
            IF Get(item, "registryDependencies") = Throw THEN Throw
            ELSE generateItemJSON(item)
        items == Get(reg, "items").elems
        m == MapResult([n \in 1..Len(items) |-> MapItem(items[n])])
    IN  IF m = Throw THEN Throw ELSE SetProp(reg, "items", m)

\* the document buildFlatRegistry writes as <output>/registry.json
transformedRegistry(reg) ==
    LET MapItem(item) ==
            LET d == Get(item, "registryDependencies")
            IN  IF d = Throw THEN Throw
                ELSE LET t == flat_transformRegistryDependencies(d)
                     IN  IF t = Throw THEN Throw
                         ELSE SetProp(Spread(item), "registryDependencies", t)
        items == Get(reg, "items").elems
        m == MapResult([n \in 1..Len(items) |-> MapItem(items[n])])
    IN  IF m = Throw THEN Throw ELSE SetProp(reg, "items", m)

\* one line of the run's record: a console line or a file operation.  For an
\* "error" line, path is the step that raised it and doc the kind of error
\* ("TypeError" from the script's own code, "EIO" from the file system).
Event(op, path, item, doc) == [op |-> op, path |-> path, item |-> item, doc |-> doc]

\* the source tree the file entries point into
SourceTree ==
    [p \in {"registry/lib/foo.ts", "registry/lib"} |->
        IF p = "registry/lib/foo.ts"
        THEN [kind |-> "file", data |-> "export const x=1"]
        ELSE [kind |-> "dir", data |-> ""]]

\* existsSync answering for regular files only
existsSync_regularFile(p) == p \in DOMAIN SourceTree /\ SourceTree[p].kind = "file"

\* fs.existsSync on the source tree: true for a file and for a directory
existsSync(p) == p \in DOMAIN SourceTree

JsonFile(doc) == [kind |-> "json", doc |-> Json(doc), data |-> ""]
RawFile(data) == [kind |-> "raw", doc |-> Undefined, data |-> data]

\* fs.writeFileSync / fs.copyFileSync on the output tree
PutFile(out, path, file) ==
    [p \in DOMAIN out \cup {path} |-> IF p = path THEN file ELSE out[p]]

\* the top-level catch: console.error twice and process.exit(1)
FlatFatal(log, step, kind) ==
    /\ flLog' = Append(log, Event("error", step, flIdx, Str(kind)))
    /\ flExit' = 1
    /\ flPc' = "exited"

FlatItems == Get(registry, "items").elems

\* readRegistryConfig
FlatRead ==
    /\ flPc = "read"
    /\ IF regFile.kind \in {"unreadable", "malformed"}
       THEN /\ flLog' = Append(flLog, Event("error", "read", 0, Str(regFile.kind)))
            /\ flExit' = 1
            /\ flPc' = "exited"
            /\ UNCHANGED registry
       ELSE /\ registry' = regFile.doc
            /\ flPc' = "check"
            /\ UNCHANGED <<flLog, flExit>>
    /\ UNCHANGED <<regFile, flIdx, flFidx, flDirs, flOut>>
    /\ UNCHANGED <<rwVars, bnVars, poVars>>

\* FlatCheckItems with ensureDir(OUTPUT_DIR) moved above the check
FlatCheckItems_mkdirFirst ==
    /\ flPc = "check"
    /\ LET items == Get(registry, "items")
           made == Append(flLog, Event("mkdir", OUTPUT_DIR, 0, Undefined))
       IN  IF items = Throw
           THEN FlatFatal(flLog, "check", "TypeError")
           ELSE IF ~Truthy(items) \/ ~IsArray(items)
           THEN /\ flLog' = Append(made, Event("error", "check", 0, Str("No items")))
                /\ flExit' = 1
                /\ flPc' = "exited"
           ELSE /\ flPc' = "mkdir"
                /\ UNCHANGED <<flLog, flExit>>
    /\ UNCHANGED <<regFile, registry, flIdx, flFidx, flDirs, flOut>>
    /\ UNCHANGED <<rwVars, bnVars, poVars>>

\* buildFlatRegistry: if (!registry.items || !Array.isArray(registry.items))
FlatCheckItems ==
    /\ flPc = "check"
    /\ LET items == Get(registry, "items")
       IN  IF items = Throw
           THEN FlatFatal(flLog, "check", "TypeError")
           ELSE IF ~Truthy(items) \/ ~IsArray(items)
           THEN /\ flLog' = Append(flLog, Event("error", "check", 0, Str("No items")))
                /\ flExit' = 1
                /\ flPc' = "exited"
           ELSE /\ flPc' = "mkdir"
                /\ UNCHANGED <<flLog, flExit>>
    /\ UNCHANGED <<regFile, registry, flIdx, flFidx, flDirs, flOut>>
    /\ UNCHANGED <<rwVars, bnVars, poVars>>

\* ensureDir(OUTPUT_DIR)
FlatEnsureDir ==
    /\ flPc = "mkdir"
    /\ IF OUTPUT_DIR \in flDirs
       THEN /\ flPc' = "item"
            /\ flIdx' = 1
            /\ UNCHANGED <<flDirs, flLog, flExit>>
       ELSE \E ok \in BOOLEAN :
              IF ok
              THEN /\ flDirs' = flDirs \cup DirAndAncestors(OUTPUT_DIR)
                   /\ flLog' = Append(flLog, Event("mkdir", OUTPUT_DIR, 0, Undefined))
                   /\ flPc' = "item"
                   /\ flIdx' = 1
                   /\ UNCHANGED flExit
              ELSE /\ FlatFatal(flLog, "mkdir", "EIO")
                   /\ UNCHANGED <<flDirs, flIdx>>
    /\ UNCHANGED <<regFile, registry, flFidx, flOut>>
    /\ UNCHANGED <<rwVars, bnVars, poVars>>

\* FlatSkipItem with break in place of continue
FlatSkipItem_break ==
    /\ flPc = "item"
    /\ flIdx <= Len(FlatItems)
    /\ LET name == Get(FlatItems[flIdx], "name")
       IN  /\ name # Throw
           /\ ~Truthy(name)
    /\ flLog' = Append(flLog, Event("warn-noname", "", flIdx, Undefined))
    /\ flIdx' = Len(FlatItems) + 1
    /\ UNCHANGED <<regFile, registry, flPc, flFidx, flDirs, flOut, flExit>>
    /\ UNCHANGED <<rwVars, bnVars, poVars>>

\* for (const item of registry.items): if (!item.name) { warn; continue }
FlatSkipItem ==
    /\ flPc = "item"
    /\ flIdx <= Len(FlatItems)
    /\ LET name == Get(FlatItems[flIdx], "name")
       IN  /\ name # Throw
           /\ ~Truthy(name)
    /\ flLog' = Append(flLog, Event("warn-noname", "", flIdx, Undefined))
    /\ flIdx' = flIdx + 1
    /\ UNCHANGED <<regFile, registry, flPc, flFidx, flDirs, flOut, flExit>>
    /\ UNCHANGED <<rwVars, bnVars, poVars>>

\* the loop body for a named item up to the call of copySourceFiles:
\* generateItemJSON and fs.writeFileSync of <output>/<item.name>.json
FlatWriteItem ==
    /\ flPc = "item"
    /\ flIdx <= Len(FlatItems)
    /\ LET item == FlatItems[flIdx]
           name == Get(item, "name")
       IN  IF name = Throw
           THEN /\ FlatFatal(flLog, "item", "TypeError")
                /\ UNCHANGED <<flOut, flFidx>>
           ELSE /\ Truthy(name)
                /\ LET itemJSON == generateItemJSON(item)
                       itemFilePath == PathJoin(OUTPUT_DIR, name.str \o ".json")
                   IN  IF itemJSON = Throw
                       THEN /\ FlatFatal(flLog, "generate", "TypeError")
                            /\ UNCHANGED <<flOut, flFidx>>
                       ELSE \E ok \in BOOLEAN :
                              IF ok
                              THEN /\ flOut' = PutFile(flOut, itemFilePath, JsonFile(itemJSON))
                                   /\ flLog' = Append(flLog,
                                         Event("write-item", itemFilePath, flIdx, Json(itemJSON)))
                                   /\ flPc' = "copy"
                                   /\ flFidx' = 1
                                   /\ UNCHANGED flExit
                              ELSE /\ FlatFatal(flLog, "write-item", "EIO")
                                   /\ UNCHANGED <<flOut, flFidx>>
    /\ UNCHANGED <<regFile, registry, flIdx, flDirs>>
    /\ UNCHANGED <<rwVars, bnVars, poVars>>

FlatFiles == Get(FlatItems[flIdx], "files")

\* copySourceFiles returns: the early return, or the end of its loop; the
\* item loop prints the item and goes on
FlatCopyReturn ==
    /\ flPc = "copy"
    /\ \/ ~Truthy(FlatFiles)
       \/ ~IsArray(FlatFiles)
       \/ IsArray(FlatFiles) /\ flFidx > Len(FlatFiles.elems)
    /\ flLog' = Append(flLog, Event("item-done", "", flIdx, Undefined))
    /\ flPc' = "item"
    /\ flIdx' = flIdx + 1
    /\ flFidx' = 0
    /\ UNCHANGED <<regFile, registry, flDirs, flOut, flExit>>
    /\ UNCHANGED <<rwVars, bnVars, poVars>>

\* copySourceFiles, one turn of for (const file of item.files)
FlatCopyFile ==
    /\ flPc = "copy"
    /\ Truthy(FlatFiles) /\ IsArray(FlatFiles)
    /\ flFidx <= Len(FlatFiles.elems)
    /\ LET sourcePath == Get(FlatFiles.elems[flFidx], "path")
       IN  IF sourcePath = Throw \/ sourcePath.t # "string"
           THEN \* file.path of null, or path.join given a non-string
                /\ FlatFatal(flLog, "copy", "TypeError")
                /\ UNCHANGED <<flDirs, flOut, flFidx>>
           ELSE LET destPath == PathJoin(OUTPUT_DIR, sourcePath.str)
                IN  IF existsSync(sourcePath.str)
                    THEN \E ok \in BOOLEAN :
                           IF ok /\ SourceTree[sourcePath.str].kind = "file"
                           THEN /\ flDirs' = flDirs \cup DirAndAncestors(Dirname(destPath))
                                /\ flOut' = PutFile(flOut, destPath,
                                                RawFile(SourceTree[sourcePath.str].data))
                                /\ flLog' = Append(flLog,
                                      Event("copy", destPath, flIdx, Str(sourcePath.str)))
                                /\ flFidx' = flFidx + 1
                                /\ UNCHANGED <<flExit, flPc>>
                           ELSE \* copyFileSync throws: EISDIR or an I/O error
                                /\ flDirs' = flDirs \cup DirAndAncestors(Dirname(destPath))
                                /\ FlatFatal(flLog, "copy",
                                      IF SourceTree[sourcePath.str].kind = "dir"
                                      THEN "EISDIR" ELSE "EIO")
                                /\ UNCHANGED <<flOut, flFidx>>
                    ELSE /\ flLog' = Append(flLog,
                               Event("warn-nosource", sourcePath.str, flIdx, Undefined))
                         /\ flFidx' = flFidx + 1
                         /\ UNCHANGED <<flDirs, flOut, flExit, flPc>>
    /\ UNCHANGED <<regFile, registry, flIdx>>
    /\ UNCHANGED <<rwVars, bnVars, poVars>>

\* after the loop: the consolidated index, the summary, and the normal end
FlatWriteIndex ==
    /\ flPc = "item"
    /\ flIdx > Len(FlatItems)
    /\ LET doc == transformedRegistry(registry)
           mainRegistryPath == PathJoin(OUTPUT_DIR, "registry.json")
       IN  IF doc = Throw
           THEN /\ FlatFatal(flLog, "index", "TypeError")
                /\ UNCHANGED flOut
           ELSE \E ok \in BOOLEAN :
                  IF ok
                  THEN /\ flOut' = PutFile(flOut, mainRegistryPath, JsonFile(doc))
                       /\ flLog' = Append(flLog,
                             Event("write-index", mainRegistryPath, 0, Json(doc)))
                       /\ flPc' = "done"
                       /\ flExit' = 0
                  ELSE /\ FlatFatal(flLog, "index", "EIO")
                       /\ UNCHANGED flOut
    /\ UNCHANGED <<regFile, registry, flIdx, flFidx, flDirs>>
    /\ UNCHANGED <<rwVars, bnVars, poVars>>

(***************************************************************************)
(* The inputs of a Flat Registry Builder run.                              *)
(***************************************************************************)
MaxItems == 2

FooWithContent ==
    Obj([path |-> Str("registry/lib/foo.ts"), content |-> Str("export const x=1"),
         type |-> Str("registry:lib")])
FooNoContent ==
    Obj([path |-> Str("registry/lib/foo.ts"), type |-> Str("registry:lib")])
MissingSource ==
    Obj([path |-> Str("registry/lib/gone.ts"), content |-> Str("export const y=2"),
         type |-> Str("registry:lib")])
DirSource ==
    Obj([path |-> Str("registry/lib"), type |-> Str("registry:lib")])
NoPathEntry ==
    Obj([content |-> Str("export const z=3"), type |-> Str("registry:lib")])

ItemPool ==
    { \* a named item with dependencies and one file carrying its content
      Obj([name |-> Str("coderabbit-form"), type |-> Str("registry:block"),
           registryDependencies |-> Arr(<<Str("button"), Str("coderabbit-types")>>),
           files |-> Arr(<<FooWithContent>>)]),
      \* a named item whose first source file is missing
      Obj([name |-> Str("coderabbit-types"), type |-> Str("registry:lib"),
           files |-> Arr(<<MissingSource, FooNoContent>>)]),
      \* items without a usable name
      Obj([type |-> Str("registry:lib"),
           registryDependencies |-> Arr(<<Str("coderabbit-types")>>),
           files |-> Arr(<<FooWithContent>>)]),
      Obj([name |-> Str(""), type |-> Str("registry:lib")]),
      Obj([type |-> Str("registry:lib"), registryDependencies |-> Arr(<<Num(1)>>)]),
      Null,
      \* named items with file entries of other shapes
      Obj([name |-> Str("coderabbit-nopath"), type |-> Str("registry:lib"),
           files |-> Arr(<<NoPathEntry, FooWithContent>>)]),
      Obj([name |-> Str("coderabbit-dir"), type |-> Str("registry:lib"),
           files |-> Arr(<<DirSource>>)]),
      Obj([name |-> Str("coderabbit-nullfile"), type |-> Str("registry:lib"),
           files |-> Arr(<<Null>>)]),
      \* fields that are not sequences
      Obj([name |-> Str("coderabbit-odd"), type |-> Str("registry:lib"),
           registryDependencies |-> Str("coderabbit-types"),
           files |-> Str("registry/lib/foo.ts")]),
      \* a name that collides with the consolidated index
      Obj([name |-> Str("registry"), type |-> Str("registry:lib"),
           registryDependencies |-> Arr(<<Str(DepUrl("coderabbit-types"))>>),
           files |-> Arr(<<FooWithContent>>)]) }

RegistryDoc(items) ==
    Obj([name |-> Str("coderabbit"),
         homepage |-> Str("https://github.com/RMNCLDYO/coderabbit-shadcn-registry"),
         items |-> items])

RegistryFiles ==
    { [kind |-> "unreadable", doc |-> Undefined],
      [kind |-> "malformed", doc |-> Undefined] }
      \cup { [kind |-> "json", doc |-> d] :
               d \in { Null, Num(5), Obj(NoProps),
                       Obj([name |-> Str("coderabbit")]),
                       RegistryDoc(Str("coderabbit-form")),
                       RegistryDoc(Obj(NoProps)) } }
      \cup { [kind |-> "json", doc |-> RegistryDoc(Arr(s))] :
               s \in SeqsUpTo(ItemPool, MaxItems) }

FlInit ==
    /\ RwIdle
    /\ BnIdle
    /\ PoIdle
    /\ regFile \in RegistryFiles
    /\ registry = Undefined
    /\ flPc = "read"
    /\ flIdx = 0
    /\ flFidx = 0
    /\ flDirs \in {{}, DirAndAncestors(OUTPUT_DIR)}
    /\ flOut = NoProps
    /\ flLog = <<>>
    /\ flExit = -1

FlNext ==
    \/ FlatRead
    \/ FlatCheckItems
    \/ FlatEnsureDir
    \/ FlatSkipItem
    \/ FlatWriteItem
    \/ FlatCopyReturn
    \/ FlatCopyFile
    \/ FlatWriteIndex

SpecFlat == FlInit /\ [][FlNext]_vars


(***************************************************************************)
(* Bundle Registry Builder (scripts/build-bundles.js).                     *)
(***************************************************************************)
StrArr(ss) == Arr([i \in 1..Len(ss) |-> Str(ss[i])])

\* the registryDependencies every entry of BUNDLES lists, around the one
\* storage adapter that differs
BundleDeps(storage) ==
    StrArr(<<"button", "input", "label", "select", "textarea",
             "coderabbit-types", "coderabbit-client", "coderabbit-storage-adapter",
             storage, "coderabbit-react", "coderabbit-form", "coderabbit-branding">>)

BundleMeta(backend) ==
    Obj([source |-> Str("https://github.com/RMNCLDYO/coderabbit-shadcn-registry"),
         license |-> Str("MIT"), backend |-> Str(backend)])

\* the backend table; the description, docs, envVars and categories of each
\* entry are texts the builder passes through and are left out here
BUNDLES ==
    [ localstorage |->
        Obj([name |-> Str("coderabbit"), type |-> Str("registry:block"),
             title |-> Str("CodeRabbit with LocalStorage"),
             author |-> Str("Ray <hi@rmncldyo.com>"),
             dependencies |-> StrArr(<<"react", "lucide-react">>),
             registryDependencies |-> BundleDeps("coderabbit-storage-localstorage"),
             meta |-> BundleMeta("localStorage")]),
      convex |->
        Obj([name |-> Str("coderabbit"), type |-> Str("registry:block"),
             title |-> Str("CodeRabbit with Convex"),
             author |-> Str("Ray <hi@rmncldyo.com>"),
             dependencies |-> StrArr(<<"react", "lucide-react", "convex">>),
             registryDependencies |-> BundleDeps("coderabbit-storage-convex"),
             meta |-> BundleMeta("Convex")]),
      supabase |->
        Obj([name |-> Str("coderabbit"), type |-> Str("registry:block"),
             title |-> Str("CodeRabbit with Supabase"),
             author |-> Str("Ray <hi@rmncldyo.com>"),
             dependencies |-> StrArr(<<"react", "lucide-react", "@supabase/supabase-js">>),
             registryDependencies |-> BundleDeps("coderabbit-storage-supabase"),
             meta |-> BundleMeta("Supabase")]),
      postgres |->
        Obj([name |-> Str("coderabbit"), type |-> Str("registry:block"),
             title |-> Str("CodeRabbit with PostgreSQL"),
             author |-> Str("Ray <hi@rmncldyo.com>"),
             dependencies |-> StrArr(<<"react", "lucide-react", "pg">>),
             devDependencies |-> StrArr(<<"@types/pg">>),
             registryDependencies |-> BundleDeps("coderabbit-storage-postgres"),
             meta |-> BundleMeta("PostgreSQL")]),
      mysql |->
        Obj([name |-> Str("coderabbit"), type |-> Str("registry:block"),
             title |-> Str("CodeRabbit with MySQL"),
             author |-> Str("Ray <hi@rmncldyo.com>"),
             dependencies |-> StrArr(<<"react", "lucide-react", "mysql2">>),
             devDependencies |-> StrArr(<<"@types/mysql2">>),
             registryDependencies |-> BundleDeps("coderabbit-storage-mysql"),
             meta |-> BundleMeta("MySQL")]) ]

\* Object.keys(BUNDLES), in insertion order
backends == <<"localstorage", "convex", "supabase", "postgres", "mysql">>

\* generateBundleJSON that spreads the configuration and rewrites nothing
generateBundleJSON_rawDeps(bundleConfig) ==
    SetProp(bundleConfig, "$schema",
            Str("https://ui.shadcn.com/schema/registry-item.json"))

\* generateBundleJSON
generateBundleJSON(bundleConfig) ==
    LET t == bundles_transformRegistryDependencies(
                 Get(bundleConfig, "registryDependencies"))
    IN  IF t = Throw THEN Throw
        ELSE SetProp(SetProp(bundleConfig, "$schema",
                        IF "$schema" \in DOMAIN bundleConfig.props
                        THEN bundleConfig.props["$schema"]
                        ELSE Str("https://ui.shadcn.com/schema/registry-item.json")),
                     "registryDependencies", t)

\* createBundleRegistry
createBundleRegistry(backend, items) ==
    LET MapItem(item) ==
            LET t == bundles_transformRegistryDependencies(
                         Get(item, "registryDependencies"))
            IN  IF t = Throw THEN Throw
                ELSE SetProp(Spread(item), "registryDependencies", t)
        transformedItems == MapResult([n \in 1..Len(items) |-> MapItem(items[n])])
    IN  IF transformedItems = Throw THEN Throw
        ELSE Obj([k \in {"$schema", "name", "homepage", "items"} |->
                    CASE k = "$schema" -> Str("https://ui.shadcn.com/schema/registry.json")
                      [] k = "name" -> Str("coderabbit")
                      [] k = "homepage" ->
                            Str("https://github.com/RMNCLDYO/coderabbit-shadcn-registry")
                      [] k = "items" -> transformedItems])

\* the top-level catch of build-bundles.js
BundleFatal(step, kind) ==
    /\ bnLog' = Append(bnLog, Event("error", step, bnIdx, Str(kind)))
    /\ bnExit' = 1
    /\ bnPc' = "exited"

bundleDir == PathJoin(OUTPUT_DIR, backends[bnIdx])

\* buildBundles: ensureDir(bundleDir)
BundleEnsureDir ==
    /\ bnPc = "mkdir"
    /\ bnIdx <= Len(backends)
    /\ IF bundleDir \in bnDirs
       THEN /\ bnPc' = "item"
            /\ UNCHANGED <<bnDirs, bnLog, bnExit>>
       ELSE \E ok \in BOOLEAN :
              IF ok
              THEN /\ bnDirs' = bnDirs \cup DirAndAncestors(bundleDir)
                   /\ bnLog' = Append(bnLog, Event("mkdir", bundleDir, bnIdx, Undefined))
                   /\ bnPc' = "item"
                   /\ UNCHANGED bnExit
              ELSE /\ BundleFatal("mkdir", "EIO")
                   /\ UNCHANGED bnDirs
    /\ UNCHANGED <<bnIdx, bnOut>>
    /\ UNCHANGED <<rwVars, flVars, poVars>>

\* buildBundles: generateBundleJSON and the write of coderabbit.json
BundleWriteItem ==
    /\ bnPc = "item"
    /\ LET bundleJSON == generateBundleJSON(BUNDLES[backends[bnIdx]])
           bundleFilePath == PathJoin(bundleDir, "coderabbit.json")
       IN  IF bundleJSON = Throw
           THEN /\ BundleFatal("generate", "TypeError")
                /\ UNCHANGED bnOut
           ELSE \E ok \in BOOLEAN :
                  IF ok
                  THEN /\ bnOut' = PutFile(bnOut, bundleFilePath, JsonFile(bundleJSON))
                       /\ bnLog' = Append(bnLog,
                             Event("write-item", bundleFilePath, bnIdx, Json(bundleJSON)))
                       /\ bnPc' = "registry"
                       /\ UNCHANGED bnExit
                  ELSE /\ BundleFatal("write-item", "EIO")
                       /\ UNCHANGED bnOut
    /\ UNCHANGED <<bnIdx, bnDirs>>
    /\ UNCHANGED <<rwVars, flVars, poVars>>

\* buildBundles: createBundleRegistry, the write of registry.json, and the
\* per-backend console lines
BundleWriteRegistry ==
    /\ bnPc = "registry"
    /\ LET registryJSON == createBundleRegistry(backends[bnIdx],
                                                <<BUNDLES[backends[bnIdx]]>>)
           registryFilePath == PathJoin(bundleDir, "registry.json")
       IN  IF registryJSON = Throw
           THEN /\ BundleFatal("generate", "TypeError")
                /\ UNCHANGED <<bnOut, bnIdx>>
           ELSE \E ok \in BOOLEAN :
                  IF ok
                  THEN /\ bnOut' = PutFile(bnOut, registryFilePath, JsonFile(registryJSON))
                       /\ bnLog' = Append(bnLog,
                             Event("write-index", registryFilePath, bnIdx, Json(registryJSON)))
                       /\ bnPc' = "mkdir"
                       /\ bnIdx' = bnIdx + 1
                       /\ UNCHANGED bnExit
                  ELSE /\ BundleFatal("write-index", "EIO")
                       /\ UNCHANGED <<bnOut, bnIdx>>
    /\ UNCHANGED bnDirs
    /\ UNCHANGED <<rwVars, flVars, poVars>>

\* buildBundles: after the loop, the summary and the normal end
BundleSummary ==
    /\ bnPc = "mkdir"
    /\ bnIdx > Len(backends)
    /\ bnLog' = Append(bnLog, Event("summary", OUTPUT_DIR, Len(backends), Undefined))
    /\ bnPc' = "done"
    /\ bnExit' = 0
    /\ UNCHANGED <<bnIdx, bnDirs, bnOut>>
    /\ UNCHANGED <<rwVars, flVars, poVars>>

BundleDirs == {PathJoin(OUTPUT_DIR, backends[i]) : i \in 1..Len(backends)}

BnInit ==
    /\ RwIdle
    /\ FlIdle
    /\ PoIdle
    /\ bnPc = "mkdir"
    /\ bnIdx = 1
    /\ \E ds \in SUBSET BundleDirs :
          bnDirs = UNION {DirAndAncestors(d) : d \in ds}
    /\ bnOut = NoProps
    /\ bnLog = <<>>
    /\ bnExit = -1

BnNext ==
    \/ BundleEnsureDir
    \/ BundleWriteItem
    \/ BundleWriteRegistry
    \/ BundleSummary

SpecBundles == BnInit /\ [][BnNext]_vars

(***************************************************************************)
(* Post-Build URL Transformer.                                             *)
(***************************************************************************)
EndsWith(s, suf) ==
    Len(s) >= Len(suf) /\ SubSeq(s, Len(s) - Len(suf) + 1, Len(s)) = suf

\* the comparison done on the references, a !== b: the array that map
\* returns is never the array it was given
StringifyDiffers_byReference(a, b) == IsArray(a)

\* JSON.stringify(a) !== JSON.stringify(b)
StringifyDiffers(a, b) == Json(a) # Json(b)

\* the layout of the output tree: what readdirSync lists for each directory
Layout ==
    [d \in {"public/r", "public/r/convex", "public/r/registry"} |->
        CASE d = "public/r" ->
                << [name |-> "coderabbit-form.json", isDir |-> FALSE],
                   [name |-> "convex", isDir |-> TRUE],
                   [name |-> "registry", isDir |-> TRUE] >>
          [] d = "public/r/convex" ->
                << [name |-> "notes.txt", isDir |-> FALSE],
                   [name |-> "registry.json", isDir |-> FALSE] >>
          [] d = "public/r/registry" ->
                << [name |-> "source.json", isDir |-> FALSE] >>]

\* findJsonFiles: the array of the paths found, or Throw when a readdirSync
\* fails
RECURSIVE findJsonFiles(_)
RECURSIVE scanEntries(_, _, _)
scanEntries(dir, entries, files) ==
    IF entries = <<>> THEN Arr(files)
    ELSE LET entry == Head(entries)
             fullPath == PathJoin(dir, entry.name)
         IN  IF entry.isDir
             THEN IF entry.name # "registry"
                  THEN LET sub == findJsonFiles(fullPath)
                       IN  IF sub = Throw THEN Throw
                           ELSE scanEntries(dir, Tail(entries), files \o sub.elems)
                  ELSE scanEntries(dir, Tail(entries), files)
             ELSE IF EndsWith(entry.name, ".json")
                  THEN scanEntries(dir, Tail(entries), Append(files, fullPath))
                  ELSE scanEntries(dir, Tail(entries), files)

findJsonFiles(dir) ==
    IF poDirs[dir] # "ok" THEN Throw
    ELSE scanEntries(dir, Layout[dir], <<>>)

\* processFile between JSON.parse and the write: the new document and
\* whether it was modified, or Throw
processData(data) ==
    LET deps == Get(data, "registryDependencies")
        top == IF deps = Throw THEN Throw
               ELSE IF Truthy(deps)
               THEN LET transformed == transformDeps(deps)
                    IN  IF transformed = Throw THEN Throw
                        ELSE IF StringifyDiffers(transformed, deps)
                        THEN [modified |-> TRUE,
                              data |-> SetProp(data, "registryDependencies", transformed)]
                        ELSE [modified |-> FALSE, data |-> data]
               ELSE [modified |-> FALSE, data |-> data]
    IN  IF top = Throw THEN Throw
        ELSE LET items == Get(top.data, "items")
             IN  IF Truthy(items) /\ IsArray(items)
                 THEN LET ItemDeps(item) == Get(item, "registryDependencies")
                          Rewritten(item) == transformDeps(ItemDeps(item))
                          Changed(item) ==
                              /\ Truthy(ItemDeps(item))
                              /\ StringifyDiffers(Rewritten(item), ItemDeps(item))
                          MapItem(item) ==
                              IF ItemDeps(item) = Throw THEN Throw
                              ELSE IF ~Truthy(ItemDeps(item)) THEN item
                              ELSE IF Rewritten(item) = Throw THEN Throw
                              ELSE IF Changed(item)
                              THEN SetProp(Spread(item), "registryDependencies",
                                           Rewritten(item))
                              ELSE item
                          mapped == MapResult([n \in 1..Len(items.elems) |->
                                                 MapItem(items.elems[n])])
                      IN  IF mapped = Throw THEN Throw
                          ELSE [modified |-> top.modified
                                               \/ \E i \in 1..Len(items.elems) :
                                                     Changed(items.elems[i]),
                                data |-> SetProp(top.data, "items", mapped)]
                 ELSE top

\* a file of the output tree: whether it parses as JSON, the value it parses
\* to, and what the file system lets the script do with it
TreeFile(valid, doc, mode) == [valid |-> valid, doc |-> doc, mode |-> mode]

PostEvent(op, path, doc) == [op |-> op, path |-> path, run |-> poRun, doc |-> doc]

\* const jsonFiles = findJsonFiles(OUTPUT_DIR): an exception here is not
\* caught by anything and ends the process
PostFindJsonFiles ==
    /\ poPc = "find"
    /\ LET jsonFiles == findJsonFiles(OUTPUT_DIR)
       IN  IF jsonFiles = Throw
           THEN /\ poPc' = "crashed"
                /\ poExit' = 1
                /\ poLog' = Append(poLog, PostEvent("uncaught", OUTPUT_DIR, Undefined))
                /\ UNCHANGED <<poFiles, poIdx, poCount>>
           ELSE /\ poFiles' = jsonFiles.elems
                /\ poIdx' = 1
                /\ poCount' = 0
                /\ poPc' = "loop"
                /\ UNCHANGED <<poLog, poExit>>
    /\ UNCHANGED <<poDirs, poTree, poSnap, poRun>>
    /\ UNCHANGED <<rwVars, flVars, bnVars>>

\* PostProcessFile without the try/catch of processFile
PostProcessFile_noCatch ==
    /\ poPc = "loop"
    /\ poIdx <= Len(poFiles)
    /\ LET filePath == poFiles[poIdx]
           file == poTree[filePath]
           result == IF file.mode = "unreadable" \/ ~file.valid THEN Throw
                     ELSE processData(file.doc)
       IN  IF result = Throw \/ (result.modified /\ file.mode # "rw")
           THEN /\ poLog' = Append(poLog, PostEvent("uncaught", filePath, Undefined))
                /\ poPc' = "crashed"
                /\ poExit' = 1
                /\ UNCHANGED <<poTree, poCount, poIdx>>
           ELSE IF ~result.modified
           THEN /\ poIdx' = poIdx + 1
                /\ UNCHANGED <<poTree, poCount, poLog, poPc, poExit>>
           ELSE /\ poTree' = [poTree EXCEPT ![filePath] =
                                 TreeFile(TRUE, Json(result.data), file.mode)]
                /\ poLog' = Append(poLog, PostEvent("write", filePath, Json(result.data)))
                /\ poCount' = poCount + 1
                /\ poIdx' = poIdx + 1
                /\ UNCHANGED <<poPc, poExit>>
    /\ UNCHANGED <<poDirs, poSnap, poFiles, poRun>>
    /\ UNCHANGED <<rwVars, flVars, bnVars>>

\* one turn of for (const file of jsonFiles): processFile(file) and the count
PostProcessFile ==
    /\ poPc = "loop"
    /\ poIdx <= Len(poFiles)
    /\ LET filePath == poFiles[poIdx]
           file == poTree[filePath]
           result == IF file.mode = "unreadable" \/ ~file.valid THEN Throw
                     ELSE processData(file.doc)
       IN  IF result = Throw
           THEN \* catch (error): console.error, return false
                /\ poLog' = Append(poLog, PostEvent("error", filePath, Undefined))
                /\ UNCHANGED <<poTree, poCount>>
           ELSE IF ~result.modified
           THEN UNCHANGED <<poTree, poCount, poLog>>
           ELSE IF file.mode = "rw"
           THEN /\ poTree' = [poTree EXCEPT ![filePath] =
                                 TreeFile(TRUE, Json(result.data), file.mode)]
                /\ poLog' = Append(poLog, PostEvent("write", filePath, Json(result.data)))
                /\ poCount' = poCount + 1
           ELSE \* writeFileSync throws: refused, or cut short after truncating
                /\ poTree' = IF file.mode = "readonly" THEN poTree
                             ELSE [poTree EXCEPT ![filePath] =
                                      TreeFile(FALSE, Undefined, file.mode)]
                /\ poLog' = Append(poLog, PostEvent("error", filePath, Undefined))
                /\ UNCHANGED poCount
    /\ poIdx' = poIdx + 1
    /\ UNCHANGED <<poDirs, poSnap, poFiles, poRun, poPc, poExit>>
    /\ UNCHANGED <<rwVars, flVars, bnVars>>

\* after the loop: the final count report and the normal end
PostReport ==
    /\ poPc = "loop"
    /\ poIdx > Len(poFiles)
    /\ poLog' = Append(poLog, PostEvent("report", "", Num(poCount)))
    /\ poPc' = "done"
    /\ poExit' = 0
    /\ UNCHANGED <<poDirs, poTree, poSnap, poFiles, poIdx, poCount, poRun>>
    /\ UNCHANGED <<rwVars, flVars, bnVars>>

MaxRuns == 2

\* the operator runs the script again on the tree the last run left
PostRunAgain ==
    /\ poPc = "done"
    /\ poRun < MaxRuns
    /\ poRun' = poRun + 1
    /\ poSnap' = poTree
    /\ poPc' = "find"
    /\ poFiles' = <<>>
    /\ poIdx' = 0
    /\ poCount' = 0
    /\ poExit' = -1
    /\ UNCHANGED <<poDirs, poTree, poLog>>
    /\ UNCHANGED <<rwVars, flVars, bnVars>>

\* documents a JSON file of the output tree may hold
TreeDocs ==
    { Obj([name |-> Str("coderabbit-form"),
           registryDependencies |-> StrArr(<<"button", "coderabbit-types">>)]),
      Obj([name |-> Str("coderabbit-form"),
           registryDependencies |-> StrArr(<<DepUrl("coderabbit-types")>>)]),
      Obj([name |-> Str("coderabbit"),
           items |-> Arr(<< Obj([name |-> Str("coderabbit-form"),
                                 registryDependencies |->
                                     StrArr(<<"coderabbit-types", "http://x/y.json">>)]),
                            Obj([name |-> Str("coderabbit-types")]) >>)]),
      Obj([registryDependencies |-> StrArr(<<"coderabbit-client">>),
           items |-> Arr(<<Null>>)]),
      Obj([registryDependencies |-> Str("coderabbit-types"), items |-> Str("x")]),
      Obj([registryDependencies |-> Arr(<<Num(1)>>)]),
      Null }

FileModes == {"rw", "unreadable", "readonly", "nospace"}

TreeFiles ==
    {TreeFile(TRUE, d, m) : d \in TreeDocs, m \in FileModes}
      \cup {TreeFile(FALSE, Undefined, "rw")}

PoInit ==
    /\ RwIdle
    /\ FlIdle
    /\ BnIdle
    /\ \E top, sub \in {"ok", "unreadable"} :
          poDirs = [d \in DOMAIN Layout |->
                      CASE d = "public/r" -> top
                        [] d = "public/r/convex" -> sub
                        [] OTHER -> "unreadable"]
    /\ \E a, b \in TreeFiles :
          poTree = [p \in {"public/r/coderabbit-form.json", "public/r/convex/notes.txt",
                           "public/r/convex/registry.json",
                           "public/r/registry/source.json"} |->
                      CASE p = "public/r/coderabbit-form.json" -> a
                        [] p = "public/r/convex/registry.json" -> b
                        [] p = "public/r/convex/notes.txt" ->
                              TreeFile(FALSE, Undefined, "rw")
                        [] OTHER ->
                              TreeFile(TRUE,
                                  Obj([registryDependencies |->
                                          StrArr(<<"coderabbit-types">>)]), "rw")]
    /\ poSnap = poTree
    /\ poFiles = <<>>
    /\ poIdx = 0
    /\ poCount = 0
    /\ poRun = 1
    /\ poPc = "find"
    /\ poLog = <<>>
    /\ poExit = -1

PoNext ==
    \/ PostFindJsonFiles
    \/ PostProcessFile
    \/ PostReport
    \/ PostRunAgain

SpecPost == PoInit /\ [][PoNext]_vars

(***************************************************************************)
(* Properties of the dependency rewriters (SpecRewriter).                  *)
(***************************************************************************)
AllStrings(v) == IsArray(v) /\ \A i \in 1..Len(v.elems) : v.elems[i].t = "string"

\* the URL the documentation gives for an internal identifier d
ExpectedUrl(d) ==
    "https://raw.githubusercontent.com/RMNCLDYO/coderabbit-shadcn-registry/main/public/r/"
        \o d \o ".json"

ExpectedDep(d) == IF StartsWith(d, "coderabbit-") THEN ExpectedUrl(d) ELSE d

\* C1: each of the three rewriters maps a list of strings to a list of the
\* same length and order whose element i is <REGISTRY_BASE_URL>/<d>.json when
\* input element d starts with "coderabbit-", and d itself otherwise (an
\* "http://" or "https://" entry included).
C1_RewriterElementwise ==
    (rwCalled # "none" /\ AllStrings(rwArg)) =>
        /\ IsArray(rwResult)
        /\ Len(rwResult.elems) = Len(rwArg.elems)
        /\ \A i \in 1..Len(rwArg.elems) :
              rwResult.elems[i] = Str(ExpectedDep(rwArg.elems[i].str))

C1_Witness ==
    /\ rwCalled = "post"
    /\ AllStrings(rwArg)
    /\ Len(rwArg.elems) = 2
    /\ StartsWith(rwArg.elems[1].str, "coderabbit-")
    /\ StartsWith(rwArg.elems[2].str, "https://")
    /\ IsArray(rwResult)

\* C2: no rewriter has an error outcome: given an absent (undefined, null) or
\* non-sequence argument, each of the three returns the argument unchanged.
C2_NoErrorOutcome ==
    (rwCalled # "none" /\ (~Truthy(rwArg) \/ ~IsArray(rwArg))) => rwResult = rwArg


(***************************************************************************)
(* Properties of the Flat Registry Builder (SpecFlat).                     *)
(***************************************************************************)
LogIdx == 1..Len(flLog)

HasItems == registry # Undefined /\ Get(registry, "items") # Throw
               /\ IsArray(Get(registry, "items"))

ItemIdx == IF HasItems THEN 1..Len(FlatItems) ELSE {}

IsObject(v) == v.t = "object"

Named(i) == IsObject(FlatItems[i]) /\ Truthy(Get(FlatItems[i], "name"))
Unnamed(i) == IsObject(FlatItems[i]) /\ ~Truthy(Get(FlatItems[i], "name"))

\* the item loop is past item i
Passed(i) == flPc \in {"item", "copy", "done", "exited"} /\ i < flIdx

\* the events of the record that are about item i
EventsOf(i, ops) == {j \in LogIdx : flLog[j].item = i /\ flLog[j].op \in ops}

\* the file entries of item i, when it has a sequence of them
EntriesOf(i) ==
    LET f == Get(FlatItems[i], "files")
    IN  IF f # Throw /\ Truthy(f) /\ IsArray(f) THEN f.elems ELSE <<>>

\* C3: the per-item descriptor written to <output>/<item.name>.json has no
\* "content" key in any entry of "files", whether or not the input entry had
\* one, and keeps every other attribute of every entry, in the input order.
C3_DescriptorFilesWithoutContent ==
    \A j \in LogIdx :
        flLog[j].op = "write-item" =>
            LET i == flLog[j].item
                inFiles == EntriesOf(i)
                outFiles == Get(flLog[j].doc, "files")
            IN  /\ flLog[j].path = "public/r/" \o Get(FlatItems[i], "name").str \o ".json"
                /\ inFiles # <<>> =>
                    /\ IsArray(outFiles)
                    /\ Len(outFiles.elems) = Len(inFiles)
                    /\ \A f \in 1..Len(inFiles) :
                          /\ IsObject(outFiles.elems[f])
                          /\ "content" \notin DOMAIN outFiles.elems[f].props
                          /\ DOMAIN outFiles.elems[f].props
                                = DOMAIN inFiles[f].props \ {"content"}
                          /\ \A k \in DOMAIN outFiles.elems[f].props :
                                outFiles.elems[f].props[k] = inFiles[f].props[k]

C3_Witness ==
    \E j \in LogIdx :
        /\ flLog[j].op = "write-item"
        /\ Len(EntriesOf(flLog[j].item)) = 2
        /\ "content" \in DOMAIN EntriesOf(flLog[j].item)[1].props
        /\ "content" \notin DOMAIN EntriesOf(flLog[j].item)[2].props
        /\ flLog[j].path \in DOMAIN flOut
        /\ flOut[flLog[j].path].doc = flLog[j].doc

\* an item the data model admits apart from its name: an object whose
\* registryDependencies, if a sequence, holds strings only
DepsSound(i) ==
    /\ IsObject(FlatItems[i])
    /\ LET d == Get(FlatItems[i], "registryDependencies")
       IN  (Truthy(d) /\ IsArray(d)) => AllStrings(d)

\* a named item all of whose file entries name a source file or nothing
FilesSound(i) ==
    \A f \in 1..Len(EntriesOf(i)) :
        LET e == EntriesOf(i)[f]
        IN  /\ IsObject(e)
            /\ Get(e, "path").t = "string"
            /\ existsSync(Get(e, "path").str) => SourceTree[Get(e, "path").str].kind = "file"

LastEvent == flLog[Len(flLog)]

\* C5: an item without a name is skipped with a warning: no descriptor is
\* written for it and none of its files are copied; the remaining items are
\* still processed; and the run ends with exit code 0 (a run over items that
\* are sound but for missing names can fail on an I/O error only).
C5_UnnamedItemSkipped ==
    /\ \A i \in ItemIdx :
          (Unnamed(i) /\ Passed(i)) =>
              /\ EventsOf(i, {"write-item", "copy", "item-done"}) = {}
              /\ Cardinality(EventsOf(i, {"warn-noname"})) = 1
    /\ flPc = "done" =>
          /\ flExit = 0
          /\ \A i \in ItemIdx : Named(i) => EventsOf(i, {"write-item"}) # {}
    /\ (flExit = 1 /\ HasItems
          /\ \A i \in ItemIdx : DepsSound(i) /\ (Named(i) => FilesSound(i))) =>
          LastEvent.op = "error" /\ LastEvent.doc = Str("EIO")

C5_Witness ==
    /\ flPc = "done"
    /\ flExit = 0
    /\ Len(FlatItems) = 2
    /\ Unnamed(1) /\ EntriesOf(1) # <<>>
    /\ Named(2) /\ EventsOf(2, {"write-item"}) # {}


\* the copy loop is past entry f of item i
Handled(i, f) ==
    \/ Passed(i)
    \/ flPc \in {"copy", "exited"} /\ i = flIdx /\ f < flFidx

\* copy and warning events of item i for the path p
CopiesOf(i, p) ==
    {j \in EventsOf(i, {"copy"}) : flLog[j].path = "public/r/" \o p}
WarningsOf(i, p) ==
    {j \in EventsOf(i, {"warn-nosource"}) : flLog[j].path = p}

\* the first sentence of C6, for the entries that have a path: a source file
\* that exists is copied to <output>/<path>; for one that does not, a warning
\* is emitted, nothing is copied, and the loop goes on
CopyOrWarn ==
    \A i \in ItemIdx : \A f \in 1..Len(EntriesOf(i)) :
        LET e == EntriesOf(i)[f]
            p == Get(e, "path")
        IN  (Named(i) /\ Handled(i, f) /\ p # Throw /\ p.t = "string") =>
                IF p.str \in DOMAIN SourceTree /\ SourceTree[p.str].kind = "file"
                THEN /\ CopiesOf(i, p.str) # {}
                     /\ ("public/r/" \o p.str) \in DOMAIN flOut
                     /\ flOut["public/r/" \o p.str] = RawFile(SourceTree[p.str].data)
                ELSE /\ CopiesOf(i, p.str) = {}
                     /\ WarningsOf(i, p.str) # {}

\* the run died in copySourceFiles on an entry that has no path
FailedOnNoPath ==
    /\ flPc = "exited"
    /\ LastEvent.op = "error" /\ LastEvent.path = "copy"
    /\ flFidx \in 1..Len(EntriesOf(flIdx))
    /\ IsObject(EntriesOf(flIdx)[flFidx])
    /\ "path" \notin DOMAIN EntriesOf(flIdx)[flFidx].props

\* C6 as stated: entries with a path are copied or warned about, and an
\* entry without a path does not make the run fail either.
C6_Original == CopyOrWarn /\ ~FailedOnNoPath

\* C6 as amended: entries whose path is a string are copied or warned about,
\* and the copy loop never gets past an entry without a path (or one whose
\* path is a directory): the error it raises ends the run with exit code 1
\* before the consolidated index is written.
C6_CopyOrWarnAndNoPathFatal ==
    /\ CopyOrWarn
    /\ \A i \in ItemIdx : \A f \in 1..Len(EntriesOf(i)) :
          (Named(i) /\ Handled(i, f)) =>
              LET p == Get(EntriesOf(i)[f], "path")
              IN  /\ p # Throw /\ p.t = "string"
                  /\ p.str \in DOMAIN SourceTree => SourceTree[p.str].kind = "file"
    /\ FailedOnNoPath =>
          /\ flExit = 1
          /\ \A j \in LogIdx : flLog[j].op # "write-index"
          /\ EventsOf(flIdx, {"write-item"}) # {}

C6_Witness ==
    /\ FailedOnNoPath
    /\ flIdx = 2
    /\ Named(1)
    /\ Len(EntriesOf(1)) = 2
    /\ \E j \in WarningsOf(1, "registry/lib/gone.ts") :
          \E k \in CopiesOf(1, "registry/lib/foo.ts") : j < k

\* the descriptor cannot be used: unreadable, not JSON, or without a
\* sequence under "items"
BadDescriptor ==
    \/ regFile.kind # "json"
    \/ Get(regFile.doc, "items") = Throw
    \/ ~IsArray(Get(regFile.doc, "items"))

\* C8: when the descriptor is unreadable, malformed or lacks an "items"
\* sequence, the run exits with status 1 before it creates the output
\* directory, writes any descriptor or index, or copies any file.
C8_BadDescriptorFailsFast ==
    BadDescriptor =>
        /\ flPc \in {"read", "check", "exited"}
        /\ flPc = "exited" => flExit = 1
        /\ flPc # "exited" => (flExit = -1 /\ ENABLED FlNext)
        /\ flOut = NoProps
        /\ \A j \in LogIdx : flLog[j].op = "error"

C8_Witness ==
    /\ BadDescriptor
    /\ regFile.kind = "json"
    /\ IsObject(regFile.doc)
    /\ flPc = "exited"
    /\ flExit = 1
    /\ flDirs = {}

\* what the index must hold for input item it: the item itself, with its
\* registryDependencies rewritten when they are a sequence
ExpectedIndexItem(it) ==
    LET d == Get(it, "registryDependencies")
    IN  IF Truthy(d) /\ IsArray(d)
        THEN SetProp(it, "registryDependencies",
                     Arr([n \in 1..Len(d.elems) |-> Str(ExpectedDep(d.elems[n].str))]))
        ELSE it

\* C10: <output>/registry.json is written only after every item has been
\* processed (the descriptor of every named item was written earlier in the
\* run), and it holds all items of the input, in input order, each with its
\* registryDependencies rewritten and the "content" of its file entries kept.
C10_IndexAfterItemsAndComplete ==
    \A j \in LogIdx :
        flLog[j].op = "write-index" =>
            /\ j = Len(flLog)
            /\ flLog[j].path = "public/r/registry.json"
            /\ \A i \in ItemIdx :
                  /\ Named(i) => \E k \in EventsOf(i, {"write-item"}) : k < j
                  /\ \E k \in EventsOf(i, {"warn-noname", "item-done"}) : k < j
            /\ LET items == Get(flLog[j].doc, "items")
               IN  /\ IsArray(items)
                   /\ Len(items.elems) = Len(FlatItems)
                   /\ \A i \in ItemIdx : items.elems[i] = ExpectedIndexItem(FlatItems[i])
            /\ \A k \in DOMAIN registry.props \ {"items"} :
                  Get(flLog[j].doc, k) = registry.props[k]
            /\ flOut[flLog[j].path].doc = flLog[j].doc

C10_Witness ==
    /\ flPc = "done"
    /\ Len(FlatItems) = 2
    /\ Named(1) /\ Unnamed(2)
    /\ Len(EntriesOf(1)) = 1
    /\ "content" \in DOMAIN EntriesOf(1)[1].props
    /\ Get(FlatItems[1], "registryDependencies") # Undefined
    /\ LastEvent.op = "write-index"
    /\ Get(LastEvent.doc, "items").elems[1].props["files"] = Get(FlatItems[1], "files")


(***************************************************************************)
(* Properties of the Bundle Registry Builder (SpecBundles).                *)
(***************************************************************************)
BundleWrites == {j \in 1..Len(bnLog) : bnLog[j].op \in {"write-item", "write-index"}}

\* the list ds with every "coderabbit-" entry replaced by its URL
ExpectedDeps(ds) == Arr([n \in 1..Len(ds.elems) |-> Str(ExpectedDep(ds.elems[n].str))])

NoInternalDep(ds) ==
    /\ IsArray(ds)
    /\ \A n \in 1..Len(ds.elems) : ~StartsWith(ds.elems[n].str, "coderabbit-")

\* C9: a successful run writes, for each backend of the table, exactly the
\* two files <output>/<backend>/coderabbit.json and
\* <output>/<backend>/registry.json; the registryDependencies of the item
\* descriptor and of the single item of the index hold no "coderabbit-" entry
\* (each is replaced by its URL, the others are kept in order); and the index
\* holds exactly that one item.
C9_BundleRunOutput ==
    bnPc = "done" =>
        /\ bnExit = 0
        /\ DOMAIN bnOut =
              UNION {{"public/r/" \o backends[b] \o "/coderabbit.json",
                      "public/r/" \o backends[b] \o "/registry.json"} :
                     b \in 1..Len(backends)}
        /\ Cardinality(BundleWrites) = 2 * Len(backends)
        /\ \A j, k \in BundleWrites : bnLog[j].path = bnLog[k].path => j = k
        /\ \A b \in 1..Len(backends) :
              LET config == BUNDLES[backends[b]]
                  item == bnOut["public/r/" \o backends[b] \o "/coderabbit.json"].doc
                  index == bnOut["public/r/" \o backends[b] \o "/registry.json"].doc
                  expected == ExpectedDeps(config.props.registryDependencies)
              IN  /\ Get(item, "registryDependencies") = expected
                  /\ NoInternalDep(Get(item, "registryDependencies"))
                  /\ \A k \in DOMAIN config.props \ {"registryDependencies"} :
                        Get(item, k) = config.props[k]
                  /\ IsArray(Get(index, "items"))
                  /\ Len(Get(index, "items").elems) = 1
                  /\ Get(index, "items").elems[1]
                        = SetProp(config, "registryDependencies", expected)
                  /\ NoInternalDep(Get(Get(index, "items").elems[1], "registryDependencies"))

C9_Witness ==
    /\ bnPc = "done"
    /\ bnExit = 0
    /\ Cardinality(DOMAIN bnOut) = 10
    /\ \E n \in 1..12 :
          StartsWith(BUNDLES["mysql"].props.registryDependencies.elems[n].str, "coderabbit-")
    /\ bnOut["public/r/mysql/registry.json"].doc.props.items.elems[1]
          .props.registryDependencies.elems[9]
          = Str(ExpectedUrl("coderabbit-storage-mysql"))


(***************************************************************************)
(* Properties of the Post-Build URL Transformer (SpecPost).                *)
(***************************************************************************)
\* the events of the current run
RunEvents(ops) == {j \in 1..Len(poLog) : poLog[j].run = poRun /\ poLog[j].op \in ops}

\* C4: the transformer is idempotent on the output tree: whatever the tree
\* held at first, a run that follows a complete run writes no file, counts 0
\* transformed files, reports 0, and leaves the tree as the first run left it.
C4_SecondRunChangesNothing ==
    poRun >= 2 =>
        /\ poTree = poSnap
        /\ RunEvents({"write"}) = {}
        /\ poCount = 0
        /\ poPc # "crashed"
        /\ poPc = "done" =>
              /\ poLog[Len(poLog)].op = "report"
              /\ poLog[Len(poLog)].doc = Num(0)

C4_Witness ==
    /\ poRun = 2
    /\ poPc = "done"
    /\ Cardinality({j \in 1..Len(poLog) : poLog[j].run = 1 /\ poLog[j].op = "write"}) = 2
    /\ poLog[Len(poLog)].doc = Num(0)

\* the JSON files findJsonFiles has to find in the tree
ScannedJson == <<"public/r/coderabbit-form.json", "public/r/convex/registry.json">>

\* the files the main loop is past
PastFiles == IF poPc \in {"loop", "done"} THEN {poFiles[k] : k \in 1..(poIdx - 1)} ELSE {}

\* C7 as stated: no error is fatal to the run: the run never dies, be the
\* error a read, parse or write error on a file or an error met while
\* enumerating the tree; a file with an error is left as it was; every other
\* JSON file is processed; and the run reaches its final count report.
C7_Original ==
    /\ poPc # "crashed"
    /\ \A j \in RunEvents({"error"}) : poTree[poLog[j].path] = poSnap[poLog[j].path]
    /\ poPc = "done" =>
          /\ poFiles = ScannedJson
          /\ poIdx = Len(poFiles) + 1
          /\ poLog[Len(poLog)].op = "report"

\* reading, parsing or transforming file f throws
ReadOrParseError(f) ==
    f.mode = "unreadable" \/ ~f.valid \/ processData(f.doc) = Throw

\* file f is to be rewritten and the file system does not let it
WriteError(f) ==
    /\ ~ReadOrParseError(f)
    /\ processData(f.doc).modified
    /\ f.mode # "rw"

EnumerationFails == \E d \in {"public/r", "public/r/convex"} : poDirs[d] # "ok"

\* C7 as amended: an error on one file is caught and logged and the loop
\* goes on: after a read or parse error, or a refused write, the file is as
\* it was (a write cut short leaves it truncated); every JSON file outside
\* the registry directory is visited and the run reaches its count report
\* with exit code 0.  An error met while enumerating the tree is not caught:
\* it ends the run with a non-zero exit before any file is read, and no
\* count is reported.
C7_FileErrorsCaughtEnumerationFatal ==
    /\ \A p \in PastFiles :
          LET f == poSnap[p]
              logged == {j \in RunEvents({"error"}) : poLog[j].path = p}
          IN  /\ (ReadOrParseError(f) \/ WriteError(f)) <=> logged # {}
              /\ (ReadOrParseError(f) \/ (WriteError(f) /\ f.mode = "readonly"))
                    => poTree[p] = f
              /\ (WriteError(f) /\ f.mode = "nospace") => ~poTree[p].valid
    /\ poPc = "done" =>
          /\ poFiles = ScannedJson
          /\ poIdx = Len(poFiles) + 1
          /\ poLog[Len(poLog)].op = "report"
          /\ poExit = 0
    /\ poPc # "find" => (poPc = "crashed" <=> EnumerationFails)
    /\ poPc = "crashed" =>
          /\ poExit = 1
          /\ poTree = poSnap
          /\ RunEvents({"error", "write", "report"}) = {}

C7_Witness ==
    /\ poPc = "done"
    /\ poRun = 1
    /\ ~poSnap[ScannedJson[1]].valid
    /\ RunEvents({"error"}) # {}
    /\ \E j \in RunEvents({"write"}) : poLog[j].path = ScannedJson[2]


(***************************************************************************)
(* Properties of the registry indexes both builders write (SpecBuilders).  *)
(***************************************************************************)
\* either builder, or the rewriter harness, started from its own first state
BuildersInit == RwInit \/ FlInit \/ BnInit

BuildersNext == RwNext \/ FlNext \/ BnNext

SpecBuilders == BuildersInit /\ [][BuildersNext]_vars

\* the registry index documents written so far, by either builder
IndexDocs ==
    {flLog[j].doc : j \in {k \in 1..Len(flLog) : flLog[k].op = "write-index"}}
      \cup {bnLog[j].doc : j \in {k \in 1..Len(bnLog) : bnLog[k].op = "write-index"}}

\* no two items of the index carry the same name
NamesUnique(index) ==
    LET items == Get(index, "items").elems
        HasName(n) == /\ IsObject(items[n])
                      /\ "name" \in DOMAIN items[n].props
                      /\ Truthy(items[n].props["name"])
    IN  \A a, b \in 1..Len(items) :
           (a # b /\ HasName(a) /\ HasName(b)) =>
               items[a].props["name"] # items[b].props["name"]

\* C11: in every registry index the builders write (the flat builder's
\* <output>/registry.json and each per-backend registry.json of the bundle
\* builder), every item's name is unique among the items of that index.
C11_IndexNamesUnique == \A index \in IndexDocs : NamesUnique(index)


\* findJsonFiles on a tree rooted at OUTPUT_DIR: the files it returns are
\* those named *.json with no directory named "registry" on the way down
ScanVisits(path) ==
    /\ StartsWith(path, OUTPUT_DIR \o "/")
    /\ EndsWith(path, ".json")
    /\ \A d \in DirAndAncestors(Dirname(path)) :
          StartsWith(d, OUTPUT_DIR \o "/") => ~EndsWith(d, "/registry")

\* the output tree a successful builder run has left
BuiltTree ==
    IF flPc = "done" THEN flOut
    ELSE IF bnPc = "done" THEN bnOut
    ELSE NoProps

\* the JSON files of that tree the run wrote and the transformer would visit
BuiltJson == {p \in DOMAIN BuiltTree : BuiltTree[p].kind = "json" /\ ScanVisits(p)}

\* C12: on every list of string identifiers the builders' rewriters (no URL
\* check) and the transformer's rewriter (which skips "http://" and
\* "https://" entries first) return the same list; hence the transformer, run
\* on the tree a successful Flat or Bundle builder run has left, processes
\* every JSON file that run wrote without error and modifies none of them.
C12_RewritersAgreeTransformerIdle ==
    /\ (rwCalled # "none" /\ AllStrings(rwArg)) =>
          /\ rwResult = transformDeps(rwArg)
          /\ flat_transformRegistryDependencies(rwArg) = transformDeps(rwArg)
          /\ bundles_transformRegistryDependencies(rwArg) = transformDeps(rwArg)
    /\ \A p \in BuiltJson :
          LET result == processData(BuiltTree[p].doc)
          IN  result # Throw /\ ~result.modified

C12_Witness ==
    /\ flPc = "done"
    /\ Len(FlatItems) = 2
    /\ Named(1) /\ Named(2)
    /\ Get(FlatItems[1], "name") # Get(FlatItems[2], "name")
    /\ LET deps == Get(FlatItems[1], "registryDependencies")
           path == PathJoin(OUTPUT_DIR, Get(FlatItems[1], "name").str \o ".json")
       IN  /\ AllStrings(deps)
           /\ \E n \in 1..Len(deps.elems) : StartsWith(deps.elems[n].str, "coderabbit-")
           /\ path \in BuiltJson
           /\ Get(BuiltTree[path].doc, "registryDependencies") = transformDeps(deps)
           /\ transformDeps(deps) # deps
    /\ PathJoin(OUTPUT_DIR, "registry.json") \in BuiltJson
    /\ \E p \in DOMAIN BuiltTree : ~ScanVisits(p)


=============================================================================
